---- MODULE Spec2Model ----
(***************************************************************************)
(* A model of fclones' file-identity and physical-location layer           *)
(* (src/src/file.rs): the unit types FilePos/FileLen, the content          *)
(* fingerprint FileHash, the identity resolver FileId, and the             *)
(* location-aware record FileInfo.                                         *)
(*                                                                         *)
(* Machine integers are kept at their width.  A u64 is a sequence of 8     *)
(* bytes and a u128 a sequence of 16 bytes, least significant byte first,  *)
(* so that masks, shifts, casts and carries are computed, not assumed.     *)
(* Text is a sequence of one-character strings.                            *)
(***************************************************************************)
EXTENDS Integers, Sequences, FiniteSets, TLC

VARIABLES
    platform,         \* the build target: "linux" (cfg(unix)) or "windows"
    overflow_checks,  \* the build profile: are integer overflow checks compiled in
    dir,              \* the filesystem: path -> storage object, or 0 when absent
    log,              \* number of warnings the Log sink has received
    seen,             \* a FileId the caller kept from an earlier call
    ret,              \* the outcome of the last file operation
    text,             \* a FileHash text (serialized or received)
    origin,           \* how `text` was produced
    parsed,           \* the outcome of deserializing `text`
    lenRet            \* the outcome of the last FilePos/FileLen operation

vars == <<platform, overflow_checks, dir, log, seen, ret,
          text, origin, parsed, lenRet>>

(***************************************************************************)
(* Bounds of the model.                                                    *)
(***************************************************************************)
MaxLog == 1        \* warnings counted before logging operations stop
MaxSumLen == 2     \* longest sequence of FileLen values summed
MaxTextLen == 33   \* longest run of one repeated character in a received text

(***************************************************************************)
(* Fixed-width unsigned integers as little-endian byte sequences.          *)
(***************************************************************************)
RECURSIVE NatBytes(_, _)
\* the w-byte representation of a small natural number n
NatBytes(n, w) ==
    IF w = 0 THEN <<>> ELSE <<n % 256>> \o NatBytes(n \div 256, w - 1)

Zeros(w) == [i \in 1..w |-> 0]

Ones(w) == [i \in 1..w |-> 255]

IsZero(x) == \A i \in 1..Len(x) : x[i] = 0

\* `x as u64` of a u128: the low 64 bits
AsU64(x) == SubSeq(x, 1, 8)

\* `x as u128` of a u64: zero extension
AsU128(x) == x \o Zeros(8)

RECURSIVE BitAnd(_, _)
BitAnd(a, b) ==
    IF a = 0 \/ b = 0 THEN 0
    ELSE IF a = 255 THEN b
    ELSE IF b = 255 THEN a
    ELSE (a % 2) * (b % 2) + 2 * BitAnd(a \div 2, b \div 2)

\* a & b
And(x, y) == [i \in 1..Len(x) |-> BitAnd(x[i], y[i])]

\* a | b
Or(x, y) == [i \in 1..Len(x) |-> x[i] + y[i] - BitAnd(x[i], y[i])]

\* a ^ b
Xor(x, y) == [i \in 1..Len(x) |-> x[i] + y[i] - 2 * BitAnd(x[i], y[i])]

Pow2(r) == CASE r = 0 -> 1 [] r = 1 -> 2 [] r = 2 -> 4 [] r = 3 -> 8
             [] r = 4 -> 16 [] r = 5 -> 32 [] r = 6 -> 64 [] r = 7 -> 128
             [] OTHER -> 256

ByteAt(x, i) == IF i >= 1 /\ i <= Len(x) THEN x[i] ELSE 0

\* x << n, bits shifted past the width are dropped
Shl(x, n) ==
    LET q == n \div 8
        r == n % 8
    IN [i \in 1..Len(x) |->
            ((ByteAt(x, i - q) * Pow2(r)) % 256)
            + (ByteAt(x, i - q - 1) \div Pow2(8 - r))]

\* x >> n
Shr(x, n) ==
    LET q == n \div 8
        r == n % 8
    IN [i \in 1..Len(x) |->
            (ByteAt(x, i + q) \div Pow2(r))
            + ((ByteAt(x, i + q + 1) * Pow2(8 - r)) % 256)]

RECURSIVE AddFrom(_, _, _, _)
\* x + y from byte i on with carry c: the bytes of the sum, then the carry out
AddFrom(x, y, i, c) ==
    IF i > Len(x) THEN <<c>>
    ELSE LET s == x[i] + y[i] + c
         IN <<s % 256>> \o AddFrom(x, y, i + 1, s \div 256)

RECURSIVE SubFrom(_, _, _, _)
\* x - y from byte i on with borrow b: the bytes of the difference, then the borrow out
SubFrom(x, y, i, b) ==
    IF i > Len(x) THEN <<b>>
    ELSE LET s == x[i] - y[i] - b
         IN IF s < 0 THEN <<s + 256>> \o SubFrom(x, y, i + 1, 1)
            ELSE <<s>> \o SubFrom(x, y, i + 1, 0)

RECURSIVE MulByteFrom(_, _, _, _)
\* x * k for one byte k, from byte i on with carry c: Len(x) + 1 bytes
MulByteFrom(x, k, i, c) ==
    IF i > Len(x) THEN <<c>>
    ELSE LET s == x[i] * k + c
         IN <<s % 256>> \o MulByteFrom(x, k, i + 1, s \div 256)

RECURSIVE MulFrom(_, _, _)
\* the full 2*Len(x)-byte product of x and y, summing x * y[j] * 256^(j-1) for j >= j0
MulFrom(x, y, j) ==
    IF j > Len(y) THEN Zeros(2 * Len(x))
    ELSE LET part == Zeros(j - 1) \o MulByteFrom(x, y[j], 1, 0)
                        \o Zeros(Len(x) - j)
             rest == MulFrom(x, y, j + 1)
         IN SubSeq(AddFrom(part, rest, 1, 0), 1, 2 * Len(x))

Low(x, w) == SubSeq(x, 1, w)

High(x, w) == SubSeq(x, w + 1, Len(x))

(***************************************************************************)
(* FilePos and FileLen: u64 wrappers with the primitive operators.  The    *)
(* operators + - * on u64 trap on overflow when the build has overflow     *)
(* checks, and wrap modulo 2^64 when it has not.                           *)
(***************************************************************************)
U64Vals ==
    { NatBytes(0, 8), NatBytes(1, 8), NatBytes(16000, 8),
      <<0, 0, 0, 0, 1, 0, 0, 0>>,         \* 2^32
      <<0, 0, 0, 0, 0, 0, 0, 128>>,       \* 2^63
      Ones(8) }                           \* FileLen::MAX

Value(v) == [panicked |-> FALSE, value |-> v]

Panic == [panicked |-> TRUE, value |-> <<>>]

\* the result of a primitive operation whose exact result is `wide`
Primitive(checks, wide) ==
    IF IsZero(High(wide, 8)) THEN Value(Low(wide, 8))
    ELSE IF checks THEN Panic
    ELSE Value(Low(wide, 8))

u64_add(checks, a, b) == Primitive(checks, AddFrom(a, b, 1, 0))

u64_sub(checks, a, b) == Primitive(checks, SubFrom(a, b, 1, 0))

u64_mul(checks, a, b) == Primitive(checks, MulFrom(a, b, 1))

\* impl Add<FileLen> for FilePos
FilePos_add(checks, pos, len) == u64_add(checks, pos, len)

\* impl Sub<FileLen> for FilePos
FilePos_sub(checks, pos, len) == u64_sub(checks, pos, len)

\* impl Add for FileLen
FileLen_add(checks, a, b) == u64_add(checks, a, b)

\* impl Sub for FileLen
FileLen_sub(checks, a, b) == u64_sub(checks, a, b)

\* impl Mul<u64> for FileLen
FileLen_mul(checks, a, k) == u64_mul(checks, a, k)

RECURSIVE Fold(_, _, _)
\* iter.fold(acc, |a, b| a + b) over the sequence s; a trap ends the fold
Fold(checks, acc, s) ==
    IF acc.panicked \/ s = <<>> THEN acc
    ELSE Fold(checks, FileLen_add(checks, acc.value, Head(s)), Tail(s))

\* impl Sum<FileLen> for FileLen
FileLen_sum(checks, s) == Fold(checks, Value(NatBytes(0, 8)), s)

LenSeqs == UNION { [1..n -> U64Vals] : n \in 0..MaxSumLen }

NoLenRet == [op |-> "none", a |-> <<>>, b |-> <<>>, out |-> Value(<<>>)]

LenFrame == UNCHANGED <<platform, overflow_checks, dir, log, seen, ret,
                        text, origin, parsed>>

FilePosAdd(a, b) ==
    /\ lenRet.op = "none"
    /\ lenRet' = [op |-> "pos_add", a |-> a, b |-> b,
                  out |-> FilePos_add(overflow_checks, a, b)]
    /\ LenFrame

FilePosSub(a, b) ==
    /\ lenRet.op = "none"
    /\ lenRet' = [op |-> "pos_sub", a |-> a, b |-> b,
                  out |-> FilePos_sub(overflow_checks, a, b)]
    /\ LenFrame

FileLenAdd(a, b) ==
    /\ lenRet.op = "none"
    /\ lenRet' = [op |-> "len_add", a |-> a, b |-> b,
                  out |-> FileLen_add(overflow_checks, a, b)]
    /\ LenFrame

FileLenSub(a, b) ==
    /\ lenRet.op = "none"
    /\ lenRet' = [op |-> "len_sub", a |-> a, b |-> b,
                  out |-> FileLen_sub(overflow_checks, a, b)]
    /\ LenFrame

FileLenMul(a, k) ==
    /\ lenRet.op = "none"
    /\ lenRet' = [op |-> "len_mul", a |-> a, b |-> k,
                  out |-> FileLen_mul(overflow_checks, a, k)]
    /\ LenFrame

FileLenSum(s) ==
    /\ lenRet.op = "none"
    /\ lenRet' = [op |-> "len_sum", a |-> s, b |-> <<>>,
                  out |-> FileLen_sum(overflow_checks, s)]
    /\ LenFrame

(***************************************************************************)
(* FileHash: a u128 with a hexadecimal text form.                          *)
(***************************************************************************)
HashVals ==
    { Zeros(16), NatBytes(1, 16), NatBytes(16000, 16), Ones(16),
      <<239, 205, 171, 137, 103, 69, 35, 1, 0, 0, 0, 0, 0, 0, 0, 0>>,
      <<16, 50, 84, 118, 152, 186, 220, 254, 239, 205, 171, 137, 103, 69, 35, 1>>,
      <<0, 0, 0, 0, 0, 0, 0, 0, 0, 0, 0, 0, 0, 0, 0, 128>> }

LowerHex == <<"0", "1", "2", "3", "4", "5", "6", "7",
              "8", "9", "a", "b", "c", "d", "e", "f">>

UpperHex == <<"0", "1", "2", "3", "4", "5", "6", "7",
              "8", "9", "A", "B", "C", "D", "E", "F">>

\* the digit the `x` format writes for n in 0..15
digit_char(n) == LowerHex[n + 1]

\* char::to_digit(16): the value of a hexadecimal digit of either case, else -1
to_digit_lower(c) ==
    IF \E i \in 1..16 : LowerHex[i] = c
    THEN (CHOOSE i \in 1..16 : LowerHex[i] = c) - 1
    ELSE -1

to_digit(c) ==
    IF \E i \in 1..16 : LowerHex[i] = c
    THEN (CHOOSE i \in 1..16 : LowerHex[i] = c) - 1
    ELSE IF \E i \in 1..16 : UpperHex[i] = c
    THEN (CHOOSE i \in 1..16 : UpperHex[i] = c) - 1
    ELSE -1

Rep(c, n) == [i \in 1..n |-> c]

RECURSIVE LowerHexDigits(_)
\* the digits the `x` format writes for x: most significant first, no leading zeros
LowerHexDigits(x) ==
    LET d == x[1] % 16
        rest == Shr(x, 4)
    IN IF IsZero(rest) THEN <<digit_char(d)>>
       ELSE LowerHexDigits(rest) \o <<digit_char(d)>>

\* the width of "{:032x}"
HashHexWidth == 32

\* the `0` flag with a width: zeros on the left up to the width
NoZeroPad(s, width) == s

ZeroPad(s, width) ==
    IF Len(s) >= width THEN s ELSE Rep("0", width - Len(s)) \o s

\* Formatter::pad: truncate to the precision, then fill with spaces on the right
\* up to the width (a width or precision of -1 is one not given)
Pad(s, width, precision) ==
    LET cut == IF precision >= 0 /\ precision < Len(s)
               THEN SubSeq(s, 1, precision) ELSE s
    IN IF width >= 0 /\ Len(cut) < width
       THEN cut \o Rep(" ", width - Len(cut))
       ELSE cut

\* <FileHash as Display>::fmt under a formatter with the given width and precision
FileHash_fmt(h, width, precision) ==
    Pad(ZeroPad(LowerHexDigits(h), HashHexWidth), width, precision)

\* <FileHash as Serialize>::serialize: collect_str formats with "{}"
FileHash_serialize(h) == FileHash_fmt(h, -1, -1)

ParseOk(h) == [ok |-> TRUE, hash |-> h]

ParseErr == [ok |-> FALSE, hash |-> <<>>]

RECURSIVE ParseDigits(_, _, _)
\* the digit loop of from_str_radix: result = result * 16 + digit, both checked
ParseDigits(digits, i, acc) ==
    IF i > Len(digits) THEN ParseOk(acc)
    ELSE LET mul == MulByteFrom(acc, 16, 1, 0)
             x == to_digit(digits[i])
         IN IF x < 0 THEN ParseErr
            ELSE IF mul[Len(acc) + 1] # 0 THEN ParseErr
            ELSE LET add == AddFrom(Low(mul, Len(acc)), NatBytes(x, Len(acc)), 1, 0)
                 IN IF add[Len(acc) + 1] # 0 THEN ParseErr
                    ELSE ParseDigits(digits, i + 1, Low(add, Len(acc)))

\* u128::from_str_radix(s, 16)
from_str_radix(src) ==
    IF src = <<>> THEN ParseErr
    ELSE IF src = <<"+">> \/ src = <<"-">> THEN ParseErr
    ELSE ParseDigits(IF src[1] = "+" THEN Tail(src) ELSE src, 1, Zeros(16))

\* <FileHash as Deserialize>::deserialize of an input value
FileHash_deserialize(input) ==
    IF ~input.is_str THEN ParseErr
    ELSE from_str_radix(input.s)

\* impl BitXor for FileHash
FileHash_bitxor(a, b) == Xor(b, a)

Signs == { <<>>, <<"+">>, <<"-">> }

FillChars == { "0", "f", "F", "g" }

Tails == { <<>>, <<"a">>, <<"A">>, <<"1">>, <<" ">> }

TextInputs ==
    { sg \o Rep(c, n) \o tl :
        sg \in Signs, c \in FillChars, n \in 0..MaxTextLen, tl \in Tails }

\* width and precision a caller of Display may ask for
FmtSpecs == { <<-1, -1>>, <<40, -1>>, <<-1, 8>>, <<16, -1>> }

NoText == [is_str |-> FALSE, s |-> <<>>]

NoOrigin == [via |-> "none", hash |-> <<>>, width |-> -1, precision |-> -1]

NotParsed == [done |-> FALSE, ok |-> FALSE, hash |-> <<>>]

HashFrame == UNCHANGED <<platform, overflow_checks, dir, log, seen, ret,
                         lenRet>>

\* a FileHash is serialized
Serialize(h) ==
    /\ origin.via = "none"
    /\ text' = [is_str |-> TRUE, s |-> FileHash_serialize(h)]
    /\ origin' = [via |-> "serialize", hash |-> h, width |-> -1, precision |-> -1]
    /\ parsed' = NotParsed
    /\ HashFrame

\* a FileHash is formatted with Display under a caller's format spec
Display(h, spec) ==
    /\ origin.via = "none"
    /\ text' = [is_str |-> TRUE, s |-> FileHash_fmt(h, spec[1], spec[2])]
    /\ origin' = [via |-> "display", hash |-> h,
                  width |-> spec[1], precision |-> spec[2]]
    /\ parsed' = NotParsed
    /\ HashFrame

\* a text arrives from outside (a cache file, a report)
ReceiveText(t) ==
    /\ origin.via = "none"
    /\ text' = [is_str |-> TRUE, s |-> t]
    /\ origin' = [via |-> "received", hash |-> <<>>,
                  width |-> -1, precision |-> -1]
    /\ parsed' = NotParsed
    /\ HashFrame

\* a value that is not a string arrives from outside
ReceiveOther ==
    /\ origin.via = "none"
    /\ text' = [is_str |-> FALSE, s |-> <<>>]
    /\ origin' = [via |-> "received", hash |-> <<>>,
                  width |-> -1, precision |-> -1]
    /\ parsed' = NotParsed
    /\ HashFrame

\* the held text is deserialized
Deserialize ==
    /\ origin.via # "none"
    /\ ~parsed.done
    /\ parsed' = [done |-> TRUE] @@ FileHash_deserialize(text)
    /\ UNCHANGED <<text, origin>>
    /\ HashFrame

(***************************************************************************)
(* The filesystem.  A storage object has a device id and an inode number   *)
(* (a volume serial number and a 128-bit file id on Windows); the          *)
(* operating system gives no two objects the same pair.  Object 4 is a     *)
(* symbolic link to path 1.                                                *)
(***************************************************************************)
\* the two paths of a comparison
Paths == { 1, 2 }

ObjTable ==
    << [kind |-> "file", dev |-> 2049, len |-> NatBytes(16000, 8),
        ino |-> <<21, 205, 91, 7, 0, 0, 0, 0>>,
        fid |-> <<21, 205, 91, 7, 0, 0, 0, 0, 1, 0, 0, 0, 0, 0, 0, 0>>,
        target |-> 0],
       [kind |-> "file", dev |-> 2049, len |-> NatBytes(0, 8),
        ino |-> <<1, 2, 3, 4, 5, 6, 7, 8>>,
        fid |-> <<1, 2, 3, 4, 5, 6, 7, 8, 9, 10, 11, 12, 13, 14, 15, 16>>,
        target |-> 0],
       [kind |-> "file", dev |-> 2064, len |-> NatBytes(16000, 8),
        ino |-> <<21, 205, 91, 7, 0, 0, 0, 0>>,
        fid |-> <<21, 205, 91, 7, 0, 0, 0, 0, 1, 0, 0, 0, 0, 0, 0, 0>>,
        target |-> 0],
       [kind |-> "symlink", dev |-> 2049, len |-> NatBytes(1, 8),
        ino |-> <<255, 255, 255, 255, 255, 255, 255, 255>>,
        fid |-> <<255, 255, 255, 255, 255, 255, 255, 255,
                  255, 255, 255, 255, 255, 255, 255, 255>>,
        target |-> 1] >>

Objects == 1..Len(ObjTable)

SysOk(o) == [kind |-> "ok", obj |-> o]

SysErr(k) == [kind |-> k, obj |-> 0]

\* path resolution that follows a symbolic link
Stat(d, p) ==
    IF d[p] = 0 THEN SysErr("NotFound")
    ELSE IF ObjTable[d[p]].kind = "file" THEN SysOk(d[p])
    ELSE LET t == ObjTable[d[p]].target
         IN IF d[t] = 0 THEN SysErr("NotFound")
            ELSE IF ObjTable[d[t]].kind = "file" THEN SysOk(d[t])
            ELSE SysErr("FilesystemLoop")

\* the failures the environment may inject into one call
Faults == { "none", "stat", "open", "query" }

\* std::fs::metadata
metadata(d, p, fault) ==
    IF d[p] # 0 /\ fault = "stat" THEN SysErr("PermissionDenied")
    ELSE Stat(d, p)

\* std::fs::symlink_metadata
symlink_metadata(d, p, fault) ==
    IF d[p] = 0 THEN SysErr("NotFound")
    ELSE IF fault = "stat" THEN SysErr("PermissionDenied")
    ELSE SysOk(d[p])

\* std::fs::File::open
File_open(d, p, fault) ==
    IF d[p] # 0 /\ fault = "open" THEN SysErr("PermissionDenied")
    ELSE Stat(d, p)

(***************************************************************************)
(* FileId                                                                  *)
(***************************************************************************)
NoId == [inode |-> <<>>, device |-> 0]

IdOk(id) == [kind |-> "ok", id |-> id]

IdErr(k) == [kind |-> k, id |-> NoId]

\* FileId::from_file (Windows)
FileId_from_file(o, fault) ==
    IF fault = "query" THEN IdErr("Other")
    ELSE IdOk([inode |-> ObjTable[o].fid, device |-> ObjTable[o].dev])

\* FileId::new
FileId_new_inode_only(plat, d, p, fault) ==
    LET m == metadata(d, p, fault)
    IN IF m.kind = "ok"
       THEN IdOk([inode |-> AsU128(ObjTable[m.obj].ino), device |-> 0])
       ELSE IdErr(m.kind)

FileId_new_kind_other(plat, d, p, fault) ==
    IF plat = "windows"
    THEN LET f == File_open(d, p, fault)
         IN IF f.kind # "ok" THEN IdErr("Other")
            ELSE LET r == FileId_from_file(f.obj, fault)
                 IN IF r.kind = "ok" THEN r ELSE IdErr("Other")
    ELSE LET m == metadata(d, p, fault)
         IN IF m.kind = "ok"
            THEN IdOk([inode |-> AsU128(ObjTable[m.obj].ino),
                       device |-> ObjTable[m.obj].dev])
            ELSE IdErr("Other")

FileId_new(plat, d, p, fault) ==
    IF plat = "windows"
    THEN LET f == File_open(d, p, fault)
         IN IF f.kind # "ok" THEN IdErr(f.kind)
            ELSE LET r == FileId_from_file(f.obj, fault)
                 IN IF r.kind = "ok" THEN r ELSE IdErr("Other")
    ELSE LET m == metadata(d, p, fault)
         IN IF m.kind = "ok"
            THEN IdOk([inode |-> AsU128(ObjTable[m.obj].ino),
                       device |-> ObjTable[m.obj].dev])
            ELSE IdErr(m.kind)

\* the match of file_id_or_log_err and file_info_or_log_err on a result kind:
\* is a value returned, and how many warnings are logged
or_log_err(kind) ==
    IF kind = "ok" THEN [some |-> TRUE, warned |-> 0]
    ELSE IF kind = "NotFound" THEN [some |-> FALSE, warned |-> 0]
    ELSE [some |-> FALSE, warned |-> 1]

(***************************************************************************)
(* FileMetadata and FileInfo                                               *)
(***************************************************************************)
OFFSET_MASK == <<255, 255, 255, 255, 255, 255, 0, 0>>

DEVICE_MASK == <<0, 0, 0, 0, 0, 0, 255, 255>>

\* the indexes DiskDevices::get_by_path may return
DevIndexVals == { 0, 258, 65535 }

\* physical byte offsets the extent query may report
OffsetVals == { <<1, 2, 3, 4, 5, 6, 7, 8>>, Ones(8) }

RECURSIVE ToNat(_)
\* the value of a byte sequence that fits a machine word of the model checker
ToNat(x) == IF IsZero(x) THEN 0 ELSE x[1] + 256 * ToNat(Tail(x))

MetaOk(o, f) == [kind |-> "ok", meta |-> o, file |-> f]

MetaErr(k) == [kind |-> k, meta |-> 0, file |-> 0]

\* FileMetadata::new: the metadata of the path itself and, on Windows, an open
\* handle (which follows a symbolic link)
FileMetadata_new(plat, d, p, fault) ==
    LET m == symlink_metadata(d, p, fault)
    IN IF m.kind # "ok" THEN MetaErr(m.kind)
       ELSE IF plat = "windows"
       THEN LET f == File_open(d, p, fault)
            IN IF f.kind # "ok" THEN MetaErr(f.kind) ELSE MetaOk(m.obj, f.obj)
       ELSE MetaOk(m.obj, 0)

\* FileMetadata::len
FileMetadata_len(md) == ObjTable[md.meta].len

\* FileMetadata::inode_id
FileMetadata_inode_id(plat, md, fault) ==
    IF plat = "windows"
    THEN LET r == FileId_from_file(md.file, fault)
         IN [kind |-> r.kind, inode |-> r.id.inode]
    ELSE [kind |-> "ok", inode |-> AsU128(ObjTable[md.meta].ino)]

\* device_index << 48 | inode_id & OFFSET_MASK
pack_location_unmasked(device_index, inode_id) ==
    Or(Shl(device_index, 48), inode_id)

pack_location(device_index, inode_id) ==
    Or(Shl(device_index, 48), And(inode_id, OFFSET_MASK))

NoInfo == [path |-> 0, len |-> <<>>, location |-> <<>>]

\* FileInfo::new, given the index the device registry returned
FileInfo_new(plat, d, p, dev_index, fault) ==
    LET device_index == NatBytes(dev_index, 8)
        md == FileMetadata_new(plat, d, p, fault)
    IN IF md.kind # "ok" THEN [kind |-> md.kind, info |-> NoInfo, inode |-> <<>>]
       ELSE LET file_len == FileMetadata_len(md)
                id == FileMetadata_inode_id(plat, md, fault)
            IN IF id.kind # "ok"
               THEN [kind |-> id.kind, info |-> NoInfo, inode |-> <<>>]
               ELSE [kind |-> "ok",
                     info |-> [path |-> p, len |-> file_len,
                               location |-> pack_location(device_index,
                                                          AsU64(id.inode))],
                     inode |-> id.inode]

\* FileInfo::get_device_index
get_device_index(fi) == ToNat(Shr(fi.location, 48))

\* what the extent query may find on an opened file
Extents ==
    { [tag |-> "none", offset |-> <<>>], [tag |-> "failed", offset |-> <<>>] }
    \cup { [tag |-> "found", offset |-> o] : o \in OffsetVals }

LocSome(o) == [kind |-> "ok", some |-> TRUE, offset |-> o]

LocNone == [kind |-> "ok", some |-> FALSE, offset |-> <<>>]

LocErr(k) == [kind |-> k, some |-> FALSE, offset |-> <<>>]

\* get_physical_file_location: fiemap opens the file; the first extent record
\* is read, if there is one
get_physical_file_location_swallow(d, p, fault, ext) ==
    LET f == File_open(d, p, fault)
    IN IF f.kind # "ok" THEN LocNone
       ELSE IF ext.tag = "found" THEN LocSome(ext.offset)
       ELSE LocNone

get_physical_file_location(d, p, fault, ext) ==
    LET f == File_open(d, p, fault)
    IN IF f.kind # "ok" THEN LocErr(f.kind)
       ELSE IF ext.tag = "failed" THEN LocErr("Other")
       ELSE IF ext.tag = "found" THEN LocSome(ext.offset)
       ELSE LocNone

\* self.location & DEVICE_MASK | (new_location >> 8) & OFFSET_MASK
merge_location_unmasked(location, new_location) ==
    Or(And(location, DEVICE_MASK), Shr(new_location, 8))

merge_location_unshifted(location, new_location) ==
    Or(And(location, DEVICE_MASK), And(new_location, OFFSET_MASK))

merge_location(location, new_location) ==
    Or(And(location, DEVICE_MASK), And(Shr(new_location, 8), OFFSET_MASK))

\* FileInfo::fetch_physical_location on `fi`, given the outcome of
\* get_physical_file_location: the FileInfo afterwards and the value returned
fetch_physical_location_none_as_zero(fi, new_location) ==
    IF new_location.kind # "ok"
    THEN [info |-> fi, kind |-> new_location.kind, value |-> <<>>]
    ELSE LET loc == merge_location(fi.location,
                        IF new_location.some THEN new_location.offset
                        ELSE Zeros(8))
         IN [info |-> [fi EXCEPT !.location = loc], kind |-> "ok", value |-> loc]

fetch_physical_location(fi, new_location) ==
    IF new_location.kind # "ok"
    THEN [info |-> fi, kind |-> new_location.kind, value |-> <<>>]
    ELSE LET loc == IF new_location.some
                    THEN merge_location(fi.location, new_location.offset)
                    ELSE fi.location
         IN [info |-> [fi EXCEPT !.location = loc], kind |-> "ok", value |-> loc]

(***************************************************************************)
(* Operations on files.  `ret` is what the caller holds after a call: the  *)
(* Option it was returned and, for a FileInfo, the record itself, which    *)
(* fetch_physical_location then updates in place.                          *)
(***************************************************************************)
NoSeen == [path |-> 0, obj |-> 0, id |-> NoId]

NoRet == [op |-> "none", path |-> 0, absent |-> FALSE, kind |-> "ok",
          some |-> FALSE, id |-> NoId, obj |-> 0, info |-> NoInfo,
          d |-> 0, inode |-> <<>>,
          extent |-> "na", offset |-> <<>>, before |-> <<>>, value |-> <<>>]

FileFrame == UNCHANGED <<platform, overflow_checks, text, origin, parsed, lenRet>>

\* file_id_or_log_err(path, log)
FileIdOrLogErr(p, fault) ==
    \E r \in { FileId_new(platform, dir, p, fault) } :
      \E out \in { or_log_err(r.kind) } :
        /\ log + out.warned <= MaxLog
        /\ log' = log + out.warned
        /\ ret' = [NoRet EXCEPT !.op = "file_id", !.path = p,
                      !.absent = (dir[p] = 0),
                      !.kind = r.kind, !.some = out.some,
                      !.id = r.id, !.obj = Stat(dir, p).obj]
        /\ UNCHANGED <<dir, seen>>
        /\ FileFrame

\* the caller keeps the FileId it was returned
Remember ==
    /\ ret.op = "file_id"
    /\ ret.some
    /\ seen' = [path |-> ret.path, obj |-> ret.obj, id |-> ret.id]
    /\ UNCHANGED <<dir, log, ret>>
    /\ FileFrame

\* file_info_or_log_err(path, devices, log), the registry returning dev_index
FileInfoOrLogErr(p, dev_index, fault) ==
    \E r \in { FileInfo_new(platform, dir, p, dev_index, fault) } :
      \E out \in { or_log_err(r.kind) } :
        /\ log + out.warned <= MaxLog
        /\ log' = log + out.warned
        /\ ret' = [NoRet EXCEPT !.op = "file_info", !.path = p,
                      !.absent = (dir[p] = 0),
                      !.kind = r.kind, !.some = out.some,
                      !.info = r.info, !.d = dev_index, !.inode = r.inode]
        /\ UNCHANGED <<dir, seen>>
        /\ FileFrame

\* info.fetch_physical_location() on the FileInfo held (Linux only)
FetchPhysicalLocation(fault, ext) ==
    /\ platform = "linux"
    /\ ret.info # NoInfo
    /\ \E nl \in { get_physical_file_location(dir, ret.info.path, fault, ext) } :
         \E r \in { fetch_physical_location(ret.info, nl) } :
           ret' = [NoRet EXCEPT !.op = "fetch", !.path = ret.info.path,
                      !.kind = r.kind, !.value = r.value,
                      !.info = r.info, !.d = ret.d,
                      !.extent = IF File_open(dir, ret.info.path, fault).kind = "ok"
                                 THEN ext.tag ELSE "unopened",
                      !.offset = ext.offset, !.before = ret.info.location]
    /\ UNCHANGED <<dir, log, seen>>
    /\ FileFrame

\* a directory entry is removed
Unlink(p) ==
    /\ dir[p] # 0
    /\ dir' = [dir EXCEPT ![p] = 0]
    /\ UNCHANGED <<log, seen, ret>>
    /\ FileFrame

\* a directory entry for object o appears: a new file, a hard link, a symlink
Link(p, o) ==
    /\ dir[p] = 0
    /\ dir' = [dir EXCEPT ![p] = o]
    /\ UNCHANGED <<log, seen, ret>>
    /\ FileFrame

(***************************************************************************)
(* Specifications.  The components share no state, so each is checked in   *)
(* a specification of its own, started from the builds that bear on it.    *)
(***************************************************************************)
InitWith(platforms, profiles) ==
    /\ platform \in platforms
    /\ overflow_checks \in profiles
    /\ dir = [p \in Paths |-> 0]
    /\ log = 0
    /\ seen = NoSeen
    /\ ret = NoRet
    /\ text = NoText
    /\ origin = NoOrigin
    /\ parsed = NotParsed
    /\ lenRet = NoLenRet

Init == InitWith({ "linux", "windows" }, BOOLEAN)

FsNext ==
    \/ \E p \in Paths : Unlink(p)
    \/ \E p \in Paths, o \in Objects : Link(p, o)

\* hard-link detection: identities are resolved and kept
IdNext ==
    \/ FsNext
    \/ \E p \in Paths, f \in Faults : FileIdOrLogErr(p, f)
    \/ Remember

SpecId == InitWith({ "linux", "windows" }, { TRUE }) /\ [][IdNext]_vars

\* the scan: identities are resolved and records built, any call may fail
ScanNext ==
    \/ FsNext
    \/ \E p \in Paths, f \in Faults : FileIdOrLogErr(p, f)
    \/ \E p \in Paths, d \in DevIndexVals, f \in Faults : FileInfoOrLogErr(p, d, f)

SpecScan == InitWith({ "linux", "windows" }, { TRUE }) /\ [][ScanNext]_vars

\* the location refresh: records are built, then refreshed any number of times
\* while the filesystem changes under them
InfoNext ==
    \/ FsNext
    \/ \E p \in Paths, d \in DevIndexVals : FileInfoOrLogErr(p, d, "none")
    \/ \E f \in { "none", "open" }, e \in Extents : FetchPhysicalLocation(f, e)

SpecInfo == InitWith({ "linux", "windows" }, { TRUE }) /\ [][InfoNext]_vars

\* a FileHash text is produced or received, then deserialized
HashNext ==
    \/ \E h \in HashVals : Serialize(h)
    \/ \E h \in HashVals, fs \in FmtSpecs : Display(h, fs)
    \/ \E t \in TextInputs : ReceiveText(t)
    \/ ReceiveOther
    \/ Deserialize

SpecHash == InitWith({ "linux" }, { TRUE }) /\ [][HashNext]_vars

\* one FilePos/FileLen operation is evaluated
LenNext ==
    \/ \E a \in U64Vals, b \in U64Vals : FilePosAdd(a, b)
    \/ \E a \in U64Vals, b \in U64Vals : FilePosSub(a, b)
    \/ \E a \in U64Vals, b \in U64Vals : FileLenAdd(a, b)
    \/ \E a \in U64Vals, b \in U64Vals : FileLenSub(a, b)
    \/ \E a \in U64Vals, k \in U64Vals : FileLenMul(a, k)
    \/ \E s \in LenSeqs : FileLenSum(s)

SpecLen == InitWith({ "linux" }, BOOLEAN) /\ [][LenNext]_vars

Next == IdNext \/ ScanNext \/ InfoNext \/ HashNext \/ LenNext

Spec == Init /\ [][Next]_vars

(***************************************************************************)
(* Properties.                                                             *)
(***************************************************************************)

\* C1: two paths that resolve (FileId::new succeeds on both) get equal FileId
\* values, equal inode and equal device, if and only if they denote the same
\* storage object: hard links compare equal; a different inode on one device,
\* or one inode number on different devices, compare unequal.
C1_EqualIffSameObject ==
    (seen.obj # 0 /\ ret.op = "file_id" /\ ret.some)
        => ((seen.id = ret.id) <=> (seen.obj = ret.obj))

\* two hard links to one object were resolved to equal FileIds
C1_Witness ==
    /\ seen.obj # 0 /\ ret.op = "file_id" /\ ret.some
    /\ seen.path # ret.path
    /\ dir[seen.path] = ret.obj /\ dir[ret.path] = ret.obj
    /\ seen.id = ret.id

OrLogOps == { "file_id", "file_info" }

Silent == { "ok", "NotFound" }

C3_LocationPacksDeviceAndInode ==
    (ret.op = "file_info" /\ ret.some) =>
        /\ SubSeq(ret.info.location, 7, 8) = NatBytes(ret.d, 2)
        /\ SubSeq(ret.info.location, 1, 6) = SubSeq(ret.inode, 1, 6)
        /\ get_device_index(ret.info) = ret.d

\* a FileInfo was built from an inode id with bits set above bit 47
C3_Witness ==
    /\ ret.op = "file_info" /\ ret.some
    /\ ret.d = 258
    /\ ret.inode[7] # 0 /\ ret.inode[8] # 0

\* C4: when fetch_physical_location finds an extent at physical offset o, the
\* low 48 bits of location are afterwards bits 8..55 of o, whatever they were
\* before, and the value returned is the updated location.
C4_ExtentReplacesLow48 ==
    (ret.op = "fetch" /\ ret.extent = "found") =>
        /\ ret.kind = "ok"
        /\ SubSeq(ret.info.location, 1, 6) = SubSeq(ret.offset, 2, 7)
        /\ ret.value = ret.info.location

\* an extent was found and the low 48 bits changed
C4_Witness ==
    /\ ret.op = "fetch" /\ ret.extent = "found"
    /\ ret.offset = <<1, 2, 3, 4, 5, 6, 7, 8>>
    /\ SubSeq(ret.before, 1, 6) # SubSeq(ret.info.location, 1, 6)

\* C5: fetch_physical_location never changes the top 16 bits of location:
\* after any fetches, whatever their outcomes, get_device_index still returns
\* the index the FileInfo was built with, and path and len are unchanged.
C5_DeviceBitsPreserved ==
    /\ [](ret.op = "fetch" =>
            /\ get_device_index(ret.info) = ret.d
            /\ SubSeq(ret.info.location, 7, 8) = SubSeq(ret.before, 7, 8))
    /\ [][(ret'.op = "fetch" /\ ret' # ret) =>
            /\ ret'.info.path = ret.info.path
            /\ ret'.info.len = ret.info.len]_vars

\* an extent at an offset with all 64 bits set was merged into a location
\* whose device index is neither 0 nor 65535
C5_Witness ==
    /\ ret.op = "fetch" /\ ret.extent = "found"
    /\ ret.offset = Ones(8)
    /\ ret.d = 258

\* C6: when the extent query succeeds and yields no extent,
\* fetch_physical_location leaves location unchanged and returns Ok with it.
C6_NoExtentUnchanged ==
    (ret.op = "fetch" /\ ret.extent = "none") =>
        /\ ret.kind = "ok"
        /\ ret.info.location = ret.before
        /\ ret.value = ret.before

\* no extent was found for a FileInfo whose low 48 bits are not zero
C6_Witness ==
    /\ ret.op = "fetch" /\ ret.extent = "none"
    /\ ~IsZero(SubSeq(ret.before, 1, 6))

Unavailable == { "failed", "unopened" }

\* C7 as stated: when the extent query fails, or reading the first extent
\* record fails, fetch_physical_location leaves location unchanged and
\* returns successfully.
C7_UnavailableIsOk ==
    (ret.op = "fetch" /\ ret.extent \in Unavailable) =>
        /\ ret.info.location = ret.before
        /\ ret.kind = "ok"

\* C7 as amended: when the extent query fails, or reading the first extent
\* record fails, fetch_physical_location leaves location unchanged and
\* returns the I/O error to its caller, with no location value.
C7_UnavailableIsErr ==
    (ret.op = "fetch" /\ ret.extent \in Unavailable) =>
        /\ ret.info.location = ret.before
        /\ ret.kind # "ok"
        /\ ret.value = <<>>

\* reading the first extent record failed
C7_Witness ==
    /\ ret.op = "fetch" /\ ret.extent = "failed"
    /\ ret.kind = "Other"

HexLowerChars == { LowerHex[i] : i \in 1..16 }

HexChars == HexLowerChars \cup { UpperHex[i] : i \in 1..16 }

\* the number of "0" characters a text starts with
LeadingZeros(b) ==
    CHOOSE n \in 0..Len(b) :
        /\ \A i \in 1..n : b[i] = "0"
        /\ n = Len(b) \/ b[n + 1] # "0"

\* an optional "+", then one or more hexadecimal digits of either case, at most
\* 32 of them after the leading zeros
Accepted(t) ==
    /\ t.is_str
    /\ LET body == IF t.s # <<>> /\ t.s[1] = "+" THEN Tail(t.s) ELSE t.s
       IN /\ body # <<>>
          /\ \A i \in 1..Len(body) : body[i] \in HexChars
          /\ Len(body) - LeadingZeros(body) <= HashHexWidth

\* C8 as stated: deserializing a FileHash succeeds only for text that is
\* exactly 32 lowercase hexadecimal digits.
C8_OnlyThirtyTwoLowercase ==
    (parsed.done /\ parsed.ok) =>
        /\ text.is_str
        /\ Len(text.s) = HashHexWidth
        /\ \A i \in 1..Len(text.s) : text.s[i] \in HexLowerChars

\* C8 as amended: deserializing a FileHash succeeds exactly for text that is
\* an optional "+" followed by one or more hexadecimal digits of either case
\* with at most 32 digits after its leading zeros, so for every text of
\* exactly 32 lowercase hexadecimal digits; every other input fails with a
\* format error and produces no FileHash.
C8_AcceptsHexOfEitherCase ==
    parsed.done =>
        /\ parsed.ok <=> Accepted(text)
        /\ ~parsed.ok => parsed.hash = <<>>
        /\ (/\ text.is_str
            /\ Len(text.s) = HashHexWidth
            /\ \A i \in 1..Len(text.s) : text.s[i] \in HexLowerChars)
                => parsed.ok

\* a short text with uppercase digits was deserialized
C8_Witness ==
    /\ parsed.done /\ parsed.ok
    /\ Len(text.s) < HashHexWidth
    /\ \E i \in 1..Len(text.s) : text.s[i] = "F"

\* the text was written by Serialize, or by Display with no width or precision
DefaultFormat ==
    \/ origin.via = "serialize"
    \/ origin.via = "display" /\ origin.width = -1 /\ origin.precision = -1

RECURSIVE ExactSum(_)
\* the sum of a sequence of u64 values, in 128 bits
ExactSum(s) ==
    IF s = <<>> THEN Zeros(16)
    ELSE Low(AddFrom(AsU128(Head(s)), ExactSum(Tail(s)), 1, 0), 16)

\* the exact result of the last operation, wider than 64 bits
Exact ==
    CASE lenRet.op \in { "pos_add", "len_add" } -> AddFrom(lenRet.a, lenRet.b, 1, 0)
      [] lenRet.op \in { "pos_sub", "len_sub" } -> SubFrom(lenRet.a, lenRet.b, 1, 0)
      [] lenRet.op = "len_mul" -> MulFrom(lenRet.a, lenRet.b, 1)
      [] OTHER -> ExactSum(lenRet.a)

\* C10: no FilePos/FileLen operation wraps modulo 2^64: it returns the exact
\* result, or traps when the exact result is outside 0..2^64-1.
C10_NeverWraps ==
    lenRet.op # "none" =>
        IF lenRet.out.panicked THEN ~IsZero(High(Exact, 8))
        ELSE /\ IsZero(High(Exact, 8))
             /\ lenRet.out.value = Low(Exact, 8)

====
